---- MODULE Spec2Model ----
(***************************************************************************)
(* Model of src/ST.py: the greedy one-dimensional cutting optimizer        *)
(* (greedy_cutting_optimization) and the stock-length search               *)
(* (find_optimal_stock_length).                                            *)
(*                                                                         *)
(* Representation.  A dict length -> quantity is a function whose domain   *)
(* is the set of keys (dict equality is key-by-key, like function          *)
(* equality).  A list is a sequence.  A returned value "None" is the empty *)
(* sequence and a returned result r is <<r>>.  A percentage rendered with  *)
(* "%.2f" is represented by the integer number of hundredths of a percent  *)
(* it shows ("93.42%" is 9342); float(s.strip('%')) of two such strings    *)
(* compares as the two integers do.                                        *)
(***************************************************************************)
EXTENDS Integers, Sequences, FiniteSets, TLC

VARIABLES
    mode,               \* "optimize": greedy_cutting_optimization is the entry point; "search": find_optimal_stock_length
    pc,                 \* position of the running call
    demands,            \* the caller's length -> quantity mapping
    stock_length,       \* greedy_cutting_optimization's stock_length argument
    min_length, max_length, step_length,   \* find_optimal_stock_length's arguments
    length,             \* the search loop's candidate length
    demand_copy,        \* the search's demands.copy() handed to the optimizer
    demand_list,        \* the optimizer's working records {length, quantity}
    cutting_plans,      \* the optimizer's distinct patterns with their counts
    total_stock_used,
    total_used_length,
    remaining_length,   \* leftover of the stock unit cut last
    current_pattern,    \* pattern of the stock unit cut last
    result,             \* the optimizer's returned result: <<>> (None) or <<r>>
    error,              \* the optimizer's returned error
    results,            \* the search's result list
    search_error        \* the search's returned error

vars == <<mode, pc, demands, stock_length, min_length, max_length, step_length,
          length, demand_copy, demand_list, cutting_plans, total_stock_used,
          total_used_length, remaining_length, current_pattern, result, error,
          results, search_error>>

\* ------------------------------------------------------------------ bounds
MaxLen == 3
MaxQty == 2
MaxStock == 4
MaxStep == 2

\* ------------------------------------------------------------------ helpers
Min(a, b) == IF a < b THEN a ELSE b

MaxOf(S) == CHOOSE m \in S : \A x \in S : x <= m

NoError == [kind |-> "None", length |-> 0, stock |-> 0]

EmptyPattern == <<>>

\* The percentage 100 * num / den as "%.2f" renders it, in hundredths of a
\* percent: round half to even on the quotient.  The float the code formats is
\* exactly the quotient whenever the quotient is a tie and den < 160, and a
\* quotient that is no tie is far from one at the magnitudes used here.
Render(num, den) ==
    LET scaled == 10000 * num
        q == scaled \div den
        r == scaled % den
    IN  IF 2 * r < den THEN q
        ELSE IF 2 * r > den THEN q + 1
        ELSE IF q % 2 = 0 THEN q ELSE q + 1

\* ------------------------------------------------------------------ optimizer
\* The lengths of the mapping that the validation loop rejects.
Oversized_GE(d, stock) == {l \in DOMAIN d : l >= stock}

Oversized(d, stock) == {l \in DOMAIN d : l > stock}

\* The working list: one record per demand, sorted by length descending.
RECURSIVE MakeDemandList(_)
MakeDemandList(d) ==
    IF DOMAIN d = {} THEN <<>>
    ELSE LET m == MaxOf(DOMAIN d)
         IN  <<[length |-> m, quantity |-> d[m]]>>
             \o MakeDemandList([l \in DOMAIN d \ {m} |-> d[l]])

AnyOutstanding(dl) == \E i \in 1..Len(dl) : dl[i].quantity > 0

\* The scan's skip condition for one working record.
Skip_GE(demand, rem) == demand.quantity <= 0 \/ demand.length >= rem

Skip(demand, rem) == demand.quantity <= 0 \/ demand.length > rem

\* The number of pieces of one record cut from the current leftover.
ActualCount_NoMin(demand, rem) == rem \div demand.length

ActualCount_One(demand, rem) == 1

ActualCount(demand, rem) == Min(rem \div demand.length, demand.quantity)

\* The inner for loop over the working list from record i on.
RECURSIVE ScanDemands(_, _, _, _)
ScanDemands(dl, i, rem, pat) ==
    IF i > Len(dl)
    THEN [demand_list |-> dl, remaining_length |-> rem, current_pattern |-> pat]
    ELSE LET demand == dl[i] IN
         IF Skip(demand, rem) THEN ScanDemands(dl, i + 1, rem, pat)
         ELSE LET actual_count == ActualCount(demand, rem) IN
              IF actual_count > 0
              THEN ScanDemands([dl EXCEPT ![i].quantity = @ - actual_count],
                               i + 1,
                               rem - actual_count * demand.length,
                               [l \in DOMAIN pat \cup {demand.length} |->
                                   IF l = demand.length THEN actual_count ELSE pat[l]])
              ELSE ScanDemands(dl, i + 1, rem, pat)

\* Index of the first plan with the given pattern, 0 when there is none.
ExistingIdx(plans, pat) ==
    IF \E i \in 1..Len(plans) : plans[i].pattern = pat
    THEN CHOOSE i \in 1..Len(plans) :
             /\ plans[i].pattern = pat
             /\ \A j \in 1..(i - 1) : plans[j].pattern # pat
    ELSE 0

\* The plan list after one more stock unit cut by pattern pat with leftover rem.
RecordPlan_UsedAsWaste(plans, pat, stock, rem) ==
    LET idx == ExistingIdx(plans, pat) IN
    IF idx # 0 THEN [plans EXCEPT ![idx].count = @ + 1]
    ELSE Append(plans, [pattern |-> pat, count |-> 1,
                        utilization |-> Render(stock - rem, stock),
                        waste |-> stock - rem])

RecordPlan(plans, pat, stock, rem) ==
    LET idx == ExistingIdx(plans, pat) IN
    IF idx # 0 THEN [plans EXCEPT ![idx].count = @ + 1]
    ELSE Append(plans, [pattern |-> pat, count |-> 1,
                        utilization |-> Render(stock - rem, stock),
                        waste |-> rem])

\* " + ".join of "count x length mm" over the pattern's items.  The items come
\* in insertion order, which is the scan's order: length descending.
RECURSIVE PatternDesc(_)
PatternDesc(pat) ==
    IF DOMAIN pat = {} THEN <<>>
    ELSE LET m == MaxOf(DOMAIN pat)
         IN  <<[count |-> pat[m], length |-> m]>>
             \o PatternDesc([l \in DOMAIN pat \ {m} |-> pat[l]])

FormattedPlans(plans) ==
    [i \in 1..Len(plans) |->
        [pattern_desc |-> PatternDesc(plans[i].pattern),
         count |-> plans[i].count,
         utilization |-> plans[i].utilization,
         waste |-> plans[i].waste]]

\* The mapping the optimizer was called with.
Arg == IF mode = "search" THEN demand_copy ELSE demands

\* Where the optimizer returns to.
AfterReturn == IF mode = "search" THEN "collect" ELSE "done"

\* ------------------------------------------------------------------ search
\* The loop condition of range(min_length, max_length + 1, step_length).
InRange_Exclusive(l, max) == l < max

InRange(l, max) == l < max + 1

\* The sort key (-float(total_utilization.strip('%')), total_stock_used),
\* compared as Python compares tuples.
KeyLess(a, b) ==
    \/ -a.total_utilization < -b.total_utilization
    \/ /\ a.total_utilization = b.total_utilization
       /\ a.total_stock_used < b.total_stock_used

\* x put into the sorted sequence s after every element whose key is not
\* greater than its own (list.sort is stable).
RECURSIVE InsertSorted(_, _)
InsertSorted(s, x) ==
    IF s = <<>> THEN <<x>>
    ELSE IF KeyLess(x, s[1]) THEN <<x>> \o s
    ELSE <<s[1]>> \o InsertSorted(Tail(s), x)

RECURSIVE SortResults(_)
SortResults(rs) ==
    IF rs = <<>> THEN <<>>
    ELSE InsertSorted(SortResults(SubSeq(rs, 1, Len(rs) - 1)), rs[Len(rs)])

\* ------------------------------------------------------------------ inputs
Lengths == 1..MaxLen

\* Every demand set over the small lengths, the empty one included.
SmallDemands == UNION {[S -> 1..MaxQty] : S \in SUBSET Lengths}

D355 == [l \in {355} |-> 10]
D600_400 == [l \in {400, 600} |-> 1]
D600 == [l \in {600} |-> 1]
D1280 == [l \in {1280} |-> 2]

\* <<stock_length, demands>> of the calls of the optimizer.
OptimizeCalls ==
    ((1..MaxStock) \X SmallDemands)
    \cup {<<3800, D355>>, <<1000, D600_400>>, <<500, D600>>, <<1000, <<>> >>}

\* <<demands, min_length, max_length, step_length>> of the calls of the search.
SearchCalls ==
    {<<d, lo, hi, st>> : d \in SmallDemands, lo \in 1..MaxStock,
                          hi \in 1..MaxStock, st \in 1..MaxStep}
    \cup {<<D355, 1000, 1200, 100>>, <<D1280, 2546, 5093, 2547>>}

Locals ==
    /\ demand_copy = <<>>
    /\ demand_list = <<>>
    /\ cutting_plans = <<>>
    /\ total_stock_used = 0
    /\ total_used_length = 0
    /\ remaining_length = 0
    /\ current_pattern = EmptyPattern
    /\ result = <<>>
    /\ error = NoError
    /\ results = <<>>
    /\ search_error = NoError

InitOptimize ==
    /\ mode = "optimize"
    /\ pc = "call"
    /\ \E c \in OptimizeCalls : stock_length = c[1] /\ demands = c[2]
    /\ min_length = 0 /\ max_length = 0 /\ step_length = 0 /\ length = 0
    /\ Locals

InitSearch ==
    /\ mode = "search"
    /\ pc = "s_loop"
    /\ \E c \in SearchCalls :
          /\ demands = c[1]
          /\ min_length = c[2] /\ max_length = c[3] /\ step_length = c[4]
          /\ length = c[2]
    /\ stock_length = 0
    /\ Locals

Init == InitOptimize \/ InitSearch

\* ------------------------------------------------------------------ actions
\* greedy_cutting_optimization up to its while loop.
Validate ==
    /\ pc = "call"
    /\ IF Oversized(Arg, stock_length) # {}
       THEN /\ \E l \in Oversized(Arg, stock_length) :
                  error' = [kind |-> "OversizedDemand", length |-> l,
                            stock |-> stock_length]
            /\ result' = <<>>
            /\ pc' = AfterReturn
            /\ UNCHANGED <<demand_list, cutting_plans, total_stock_used,
                           total_used_length>>
       ELSE /\ demand_list' = MakeDemandList(Arg)
            /\ cutting_plans' = <<>>
            /\ total_stock_used' = 0
            /\ total_used_length' = 0
            /\ pc' = "loop"
            /\ UNCHANGED <<result, error>>
    /\ UNCHANGED <<mode, demands, stock_length, min_length, max_length,
                   step_length, length, demand_copy, remaining_length,
                   current_pattern, results, search_error>>

\* One iteration of the while loop: one stock unit.  The mutated variant
\* decrements the quantities of the mapping it was handed.
CutUnit_WritesArg ==
    /\ pc = "loop"
    /\ AnyOutstanding(demand_list)
    /\ LET u == ScanDemands(demand_list, 1, stock_length, EmptyPattern)
           written == [l \in DOMAIN Arg |->
                          LET i == CHOOSE k \in 1..Len(u.demand_list) :
                                       u.demand_list[k].length = l
                          IN  u.demand_list[i].quantity]
       IN  /\ demand_list' = u.demand_list
           /\ remaining_length' = u.remaining_length
           /\ current_pattern' = u.current_pattern
           /\ IF mode = "search"
              THEN demand_copy' = written /\ demands' = demands
              ELSE demands' = written /\ demand_copy' = demand_copy
           /\ IF u.current_pattern = EmptyPattern
              THEN /\ result' = <<>>
                   /\ error' = [kind |-> "InfeasibleDemand", length |-> 0,
                                stock |-> stock_length]
                   /\ pc' = AfterReturn
                   /\ UNCHANGED <<cutting_plans, total_stock_used, total_used_length>>
              ELSE /\ cutting_plans' = RecordPlan(cutting_plans, u.current_pattern,
                                                  stock_length, u.remaining_length)
                   /\ total_stock_used' = total_stock_used + 1
                   /\ total_used_length' =
                          total_used_length + (stock_length - u.remaining_length)
                   /\ pc' = "loop"
                   /\ UNCHANGED <<result, error>>
    /\ UNCHANGED <<mode, stock_length, min_length, max_length, step_length,
                   length, results, search_error>>

CutUnit ==
    /\ pc = "loop"
    /\ AnyOutstanding(demand_list)
    /\ LET u == ScanDemands(demand_list, 1, stock_length, EmptyPattern)
       IN  /\ demand_list' = u.demand_list
           /\ remaining_length' = u.remaining_length
           /\ current_pattern' = u.current_pattern
           /\ IF u.current_pattern = EmptyPattern
              THEN /\ result' = <<>>
                   /\ error' = [kind |-> "InfeasibleDemand", length |-> 0,
                                stock |-> stock_length]
                   /\ pc' = AfterReturn
                   /\ UNCHANGED <<cutting_plans, total_stock_used, total_used_length>>
              ELSE /\ cutting_plans' = RecordPlan(cutting_plans, u.current_pattern,
                                                  stock_length, u.remaining_length)
                   /\ total_stock_used' = total_stock_used + 1
                   /\ total_used_length' =
                          total_used_length + (stock_length - u.remaining_length)
                   /\ pc' = "loop"
                   /\ UNCHANGED <<result, error>>
    /\ UNCHANGED <<mode, demands, stock_length, min_length, max_length,
                   step_length, length, demand_copy, results, search_error>>

\* The code after the while loop: the totals and the returned record.  The
\* division raises ZeroDivisionError when no stock unit was cut.
Finish ==
    /\ pc = "loop"
    /\ ~AnyOutstanding(demand_list)
    /\ IF total_stock_used * stock_length = 0
       THEN /\ pc' = "raised"
            /\ UNCHANGED <<result, error>>
       ELSE /\ error' = NoError
            /\ result' = <<[cutting_plans |-> FormattedPlans(cutting_plans),
                            total_stock_used |-> total_stock_used,
                            total_utilization |->
                                Render(total_used_length,
                                       total_stock_used * stock_length),
                            total_waste |-> total_stock_used * stock_length
                                            - total_used_length]>>
            /\ pc' = AfterReturn
    /\ UNCHANGED <<mode, demands, stock_length, min_length, max_length,
                   step_length, length, demand_copy, demand_list, cutting_plans,
                   total_stock_used, total_used_length, remaining_length,
                   current_pattern, results, search_error>>

\* The search's loop head and the call of the optimizer on a copy.
Evaluate ==
    /\ pc = "s_loop"
    /\ InRange(length, max_length)
    /\ demand_copy' = demands
    /\ stock_length' = length
    /\ pc' = "call"
    /\ UNCHANGED <<mode, demands, min_length, max_length, step_length, length,
                   demand_list, cutting_plans, total_stock_used,
                   total_used_length, remaining_length, current_pattern,
                   result, error, results, search_error>>

\* The search's loop body after the optimizer returned.
Collect ==
    /\ pc = "collect"
    /\ results' = IF Len(result) > 0
                  THEN Append(results,
                              [stock_length |-> length,
                               cutting_plans |-> result[1].cutting_plans,
                               total_stock_used |-> result[1].total_stock_used,
                               total_utilization |-> result[1].total_utilization,
                               total_waste |-> result[1].total_waste])
                  ELSE results
    /\ length' = length + step_length
    /\ pc' = "s_loop"
    /\ UNCHANGED <<mode, demands, stock_length, min_length, max_length,
                   step_length, demand_copy, demand_list, cutting_plans,
                   total_stock_used, total_used_length, remaining_length,
                   current_pattern, result, error, search_error>>

\* The code after the search's loop.
SearchFinish ==
    /\ pc = "s_loop"
    /\ ~InRange(length, max_length)
    /\ IF results = <<>>
       THEN /\ search_error' = [kind |-> "NoFeasibleLength", length |-> 0,
                                stock |-> 0]
            /\ UNCHANGED results
       ELSE /\ results' = SortResults(results)
            /\ UNCHANGED search_error
    /\ pc' = "done"
    /\ UNCHANGED <<mode, demands, stock_length, min_length, max_length,
                   step_length, length, demand_copy, demand_list, cutting_plans,
                   total_stock_used, total_used_length, remaining_length,
                   current_pattern, result, error>>

Next ==
    \/ Validate
    \/ CutUnit
    \/ Finish
    \/ Evaluate
    \/ Collect
    \/ SearchFinish

Spec == Init /\ [][Next]_vars

\* A call of the optimizer alone.  The program is sequential: a step that can
\* be taken is taken.
OptimizerNext ==
    \/ Validate
    \/ CutUnit
    \/ Finish

OptimizerSpec == InitOptimize /\ [][OptimizerNext]_vars /\ WF_vars(OptimizerNext)

\* ------------------------------------------------------------------ claims
RECURSIVE SeqSum(_)
SeqSum(s) == IF s = <<>> THEN 0 ELSE s[1] + SeqSum(Tail(s))

\* The optimizer has just returned its (result, error) pair.
OptimizerReturned ==
    \/ mode = "optimize" /\ pc = "done"
    \/ mode = "search" /\ pc = "collect"

\* Pieces of length L in one formatted pattern.
CountIn(desc, L) ==
    SeqSum([j \in 1..Len(desc) |-> IF desc[j].length = L THEN desc[j].count ELSE 0])

\* Pieces of length L the whole plan cuts.
CutOf(plans, L) ==
    SeqSum([i \in 1..Len(plans) |-> plans[i].count * CountIn(plans[i].pattern_desc, L)])

\* Length one formatted pattern cuts from a stock unit.
CutLength(desc) ==
    SeqSum([j \in 1..Len(desc) |-> desc[j].length * desc[j].count])

Outstanding(dl) == SeqSum([i \in 1..Len(dl) |-> dl[i].quantity])

\* C1: whenever the optimizer returns a result, the plan cuts exactly the
\* requested quantity of every demanded length, and no other length.
C1_DemandConservation ==
    (OptimizerReturned /\ Len(result) = 1) =>
        LET plans == result[1].cutting_plans IN
        /\ \A L \in DOMAIN demands : CutOf(plans, L) = demands[L]
        /\ \A i \in 1..Len(plans) : \A j \in 1..Len(plans[i].pattern_desc) :
               plans[i].pattern_desc[j].length \in DOMAIN demands

C1_Witness ==
    /\ mode = "optimize" /\ pc = "done" /\ Len(result) = 1
    /\ Len(result[1].cutting_plans) >= 2
    /\ \E i \in 1..Len(result[1].cutting_plans) :
           /\ result[1].cutting_plans[i].count >= 2
           /\ Len(result[1].cutting_plans[i].pattern_desc) >= 2

\* C2: a demand length above the stock length always makes the optimizer
\* return no result and the OversizedDemand error naming an offending length
\* and the stock length; the loop is never entered.  Lengths up to and
\* including the stock length are not rejected.
C2_Oversized ==
    /\ (\E l \in DOMAIN demands : l > stock_length) =>
          /\ pc \notin {"loop", "raised"}
          /\ OptimizerReturned =>
                /\ result = <<>>
                /\ error.kind = "OversizedDemand"
                /\ error.length \in DOMAIN demands
                /\ error.length > stock_length
                /\ error.stock = stock_length
    /\ (OptimizerReturned /\ \A l \in DOMAIN demands : l <= stock_length) =>
          error.kind # "OversizedDemand"

C2_Witness ==
    /\ OptimizerReturned
    /\ error.kind = "OversizedDemand"
    /\ \E l \in DOMAIN demands : l = stock_length
    /\ Cardinality(Oversized(demands, stock_length)) >= 2

\* C3: a call with an empty demand set ends by returning the EmptyDemandSet
\* error, with nothing computed.
C3_EmptyDemandSet ==
    (DOMAIN demands = {} /\ pc \in {"done", "raised"}) =>
        /\ pc = "done"
        /\ result = <<>> /\ results = <<>>
        /\ total_stock_used = 0
        /\ IF mode = "optimize"
           THEN error.kind = "EmptyDemandSet"
           ELSE search_error.kind = "EmptyDemandSet"

\* Exact utilization of a search result, as the fraction Used / Den.
Used(r) == r.total_stock_used * r.stock_length - r.total_waste
Den(r) == r.total_stock_used * r.stock_length

\* C4: the first element of a returned search sequence has the greatest exact
\* utilization and, among the elements of the same exact utilization, the
\* fewest stock units.
C4_SearchRanking ==
    (mode = "search" /\ pc = "done" /\ results # <<>>) =>
        \A i \in 2..Len(results) :
            /\ Used(results[1]) * Den(results[i]) >= Used(results[i]) * Den(results[1])
            /\ Used(results[1]) * Den(results[i]) = Used(results[i]) * Den(results[1])
                  => results[1].total_stock_used <= results[i].total_stock_used

\* C5: the call with stock length 3800 and demand {355: 10} has returned.
C5_Case ==
    /\ mode = "optimize" /\ pc = "done"
    /\ stock_length = 3800 /\ demands = D355

\* C5 as stated: one pattern repeated 10 times, 10 stock units, total waste
\* 2500, waste 250 per unit.
C5_Original ==
    C5_Case =>
        /\ Len(result) = 1
        /\ Len(result[1].cutting_plans) = 1
        /\ result[1].cutting_plans[1].count = 10
        /\ result[1].cutting_plans[1].waste = 250
        /\ result[1].total_stock_used = 10
        /\ result[1].total_waste = 2500

\* C5 (amended): one pattern of ten 355 pieces, cut once: 1 stock unit, waste
\* 250 for the unit and in total, utilization 93.42%.
C5_Amended ==
    C5_Case =>
        /\ Len(result) = 1
        /\ Len(result[1].cutting_plans) = 1
        /\ result[1].cutting_plans[1].pattern_desc = <<[count |-> 10, length |-> 355]>>
        /\ result[1].cutting_plans[1].count = 1
        /\ result[1].cutting_plans[1].waste = 250
        /\ result[1].total_stock_used = 1
        /\ result[1].total_waste = 250
        /\ result[1].total_utilization = 9342

C5_Witness == C5_Case /\ Len(result) = 1

\* C6: every iteration of the while loop places a piece, so it lowers the sum
\* of the remaining quantities and never returns the InfeasibleDemand error;
\* and the loop reaches the state where nothing remains.
C6_Progress ==
    /\ [][(pc = "loop" /\ AnyOutstanding(demand_list)) =>
             /\ Outstanding(demand_list') < Outstanding(demand_list)
             /\ current_pattern' # EmptyPattern
             /\ error'.kind # "InfeasibleDemand"
             /\ \A i \in 1..Len(demand_list') : demand_list'[i].quantity >= 0]_vars
    /\ (pc = "loop") ~> (pc # "loop" /\ ~AnyOutstanding(demand_list))

C6_Witness ==
    /\ pc = "loop" /\ total_stock_used >= 2
    /\ AnyOutstanding(demand_list)
    /\ \E l \in DOMAIN demands : l = stock_length

\* C7: for a non-empty demand set and min_length <= max_length the search
\* returns one result for each candidate not below the largest demand length
\* and no other, and the NoFeasibleLength error exactly when there is none.
Candidates ==
    {c \in min_length..max_length : (c - min_length) % step_length = 0}

Feasible == {c \in Candidates : \A l \in DOMAIN demands : l <= c}

C7_Precondition ==
    mode = "search" /\ DOMAIN demands # {} /\ min_length <= max_length

C7_SearchFeasibility ==
    /\ C7_Precondition => pc # "raised"
    /\ (C7_Precondition /\ pc = "done") =>
          /\ {results[i].stock_length : i \in 1..Len(results)} = Feasible
          /\ Len(results) = Cardinality(Feasible)
          /\ search_error.kind = "NoFeasibleLength" <=> Feasible = {}

C7_Witness ==
    /\ C7_Precondition /\ pc = "done"
    /\ Len(results) >= 2
    /\ Cardinality(Candidates) > Len(results)
    /\ max_length \in Candidates

\* C8: every entry of a returned plan records waste = stock_length - the
\* length its pattern cuts, with 0 <= waste < stock_length; the same holds of
\* the plans under construction and of the results the search collected.
WasteOK(stock, cut, waste) ==
    waste = stock - cut /\ 0 <= waste /\ waste < stock

PlansWasteOK(stock, plans) ==
    \A i \in 1..Len(plans) :
        WasteOK(stock, CutLength(plans[i].pattern_desc), plans[i].waste)

C8_WasteArithmetic ==
    /\ (OptimizerReturned /\ Len(result) = 1) =>
          PlansWasteOK(stock_length, result[1].cutting_plans)
    /\ pc = "loop" => PlansWasteOK(stock_length, FormattedPlans(cutting_plans))
    /\ \A k \in 1..Len(results) :
          PlansWasteOK(results[k].stock_length, results[k].cutting_plans)

C8_Witness ==
    /\ OptimizerReturned /\ Len(result) = 1
    /\ \E i \in 1..Len(result[1].cutting_plans) :
           /\ result[1].cutting_plans[i].count >= 2
           /\ result[1].cutting_plans[i].waste > 0
    /\ Len(result[1].cutting_plans) >= 2

\* C9: no step changes the caller's mapping, and every call the search makes
\* of the optimizer is handed the caller's quantities.
C9_DemandsUnchanged ==
    [][/\ demands' = demands
       /\ (mode = "search" /\ pc' = "call") => demand_copy' = demands]_vars

C9_Witness ==
    /\ mode = "search" /\ pc = "done" /\ Len(results) >= 2
    /\ \A i \in 1..Len(demand_list) : demand_list[i].quantity = 0
    /\ \E l \in DOMAIN demands : demands[l] >= 2

\* C10: when a stock unit is closed, every working record has no quantity
\* left or is longer than the unit's leftover.
UnitClosed ==
    \/ pc = "loop" /\ total_stock_used > 0
    \/ OptimizerReturned /\ Len(result) = 1

C10_GreedyMaximality ==
    UnitClosed =>
        \A i \in 1..Len(demand_list) :
            \/ demand_list[i].quantity = 0
            \/ demand_list[i].length > remaining_length

C10_Witness ==
    /\ pc = "loop" /\ total_stock_used > 0
    /\ remaining_length > 0
    /\ \E i \in 1..Len(demand_list) :
           demand_list[i].quantity > 0 /\ demand_list[i].length > remaining_length
    /\ \E i \in 1..Len(demand_list) :
           demand_list[i].quantity = 0 /\ demand_list[i].length <= remaining_length

====
